---- MODULE Spec2Model ----
(***************************************************************************)
(* Model of spedextractor/gen_odoo.py: the generator that turns the SPED   *)
(* register and field tables of one module into Odoo model classes, a      *)
(* security CSV and a views XML.                                           *)
(*                                                                         *)
(* Python strings are sequences of one-character strings, so that          *)
(* startswith, endswith, replace, slicing, lower(), strip(), int() and the *)
(* string ordering used by sorted() are computed and not assumed.          *)
(***************************************************************************)
EXTENDS Integers, Sequences, FiniteSets, TLC

VARIABLES
    pc,            \* position of main inside the body of "for mod in MODULES"
    mod,           \* the module being generated
    regs_in,       \* what get_registers(mod, year) returned
    registers,     \* the filtered, sorted list; records are mutated in place
    fields_in,     \* what get_fields(mod, year) returned, as it was returned
    mod_fields,    \* mod_fields: the same records, mutated in place
    pos,           \* 1-based position of "for register in registers"
    last_bloco,    \* last_bloco
    concrete_models_source,  \* names of the classes written to the concrete models
    classes,       \* classes (one record per generated Class)
    security_csv,  \* rows of security_csv after the header line
    views_xml,     \* elements appended to views_xml by the register loop
    rendered       \* per class, per attr: the kwargs the filters computed

vars == <<pc, mod, regs_in, registers, fields_in, mod_fields, pos, last_bloco,
          concrete_models_source, classes, security_csv, views_xml, rendered>>

(***************************************************************************)
(* Bounds of the model.                                                    *)
(***************************************************************************)
MaxRegs == 3
MaxLevel == 4
MaxFields == 3
MaxDecimal == 100

(***************************************************************************)
(* Strings.                                                                *)
(***************************************************************************)
\* the characters the model uses, in code point order
Alphabet ==
    <<" ", "0", "1", "2", "3", "4", "5", "6", "7", "8", "9", ":", ";",
      "A", "B", "C", "D", "E", "F", "G", "H", "I", "J", "K", "L", "M",
      "N", "O", "P", "Q", "R", "S", "T", "U", "V", "W", "X", "Y", "Z", "_",
      "a", "b", "c", "d", "e", "f", "g", "h", "i", "j", "k", "l", "m",
      "n", "o", "p", "q", "r", "s", "t", "u", "v", "w", "x", "y", "z">>

Ord(c) == CHOOSE k \in 1..Len(Alphabet) : Alphabet[k] = c

Digits == <<"0", "1", "2", "3", "4", "5", "6", "7", "8", "9">>

Uppers ==
    <<"A", "B", "C", "D", "E", "F", "G", "H", "I", "J", "K", "L", "M",
      "N", "O", "P", "Q", "R", "S", "T", "U", "V", "W", "X", "Y", "Z">>

Lowers ==
    <<"a", "b", "c", "d", "e", "f", "g", "h", "i", "j", "k", "l", "m",
      "n", "o", "p", "q", "r", "s", "t", "u", "v", "w", "x", "y", "z">>

\* str.lower() on one character
LowerChar(c) ==
    IF \E k \in 1..Len(Uppers) : Uppers[k] = c
    THEN Lowers[CHOOSE k \in 1..Len(Uppers) : Uppers[k] = c]
    ELSE c

\* str.lower()
Lower(s) == [k \in 1..Len(s) |-> LowerChar(s[k])]

\* s < t for Python strings
RECURSIVE StrLess(_, _)
StrLess(s, t) ==
    IF t = <<>> THEN FALSE
    ELSE IF s = <<>> THEN TRUE
    ELSE IF s[1] # t[1] THEN Ord(s[1]) < Ord(t[1])
    ELSE StrLess(Tail(s), Tail(t))

\* s.startswith(p)
StartsWith(s, p) == Len(s) >= Len(p) /\ SubSeq(s, 1, Len(p)) = p

\* s.endswith(p)
EndsWith(s, p) == Len(s) >= Len(p) /\ SubSeq(s, Len(s) - Len(p) + 1, Len(s)) = p

\* p in s
Contains(s, p) == \E k \in 0..(Len(s) - Len(p)) : SubSeq(s, k + 1, k + Len(p)) = p

\* s[a:b] with 0 <= a <= b
Slice(s, a, b) ==
    LET hi == IF b < Len(s) THEN b ELSE Len(s)
    IN IF a >= hi THEN <<>> ELSE SubSeq(s, a + 1, hi)

\* s[-n:]
LastN(s, n) == IF Len(s) <= n THEN s ELSE SubSeq(s, Len(s) - n + 1, Len(s))

\* s.replace(old, new), old not empty
RECURSIVE Replace(_, _, _)
Replace(s, old, new) ==
    IF Len(s) < Len(old) THEN s
    ELSE IF SubSeq(s, 1, Len(old)) = old
         THEN new \o Replace(SubSeq(s, Len(old) + 1, Len(s)), old, new)
         ELSE <<s[1]>> \o Replace(Tail(s), old, new)

\* s.strip() for the blank the model uses
RECURSIVE LStrip(_)
LStrip(s) == IF s # <<>> /\ s[1] = " " THEN LStrip(Tail(s)) ELSE s

RECURSIVE RStrip(_)
RStrip(s) ==
    IF s # <<>> /\ s[Len(s)] = " " THEN RStrip(SubSeq(s, 1, Len(s) - 1)) ELSE s

Strip(s) == RStrip(LStrip(s))

\* str(n) and f"{n}" for an int n >= 0
RECURSIVE Str(_)
Str(n) == IF n < 10 THEN <<Digits[n + 1]>> ELSE Str(n \div 10) \o <<Digits[(n % 10) + 1]>>

DigitVal(c) == (CHOOSE k \in 1..10 : Digits[k] = c) - 1

\* int(s) for a string of decimal digits
RECURSIVE ParseInt(_)
ParseInt(s) ==
    IF s = <<>> THEN 0
    ELSE 10 * ParseInt(SubSeq(s, 1, Len(s) - 1)) + DigitVal(s[Len(s)])

(***************************************************************************)
(* The string literals of gen_odoo.py that the model uses.                 *)
(***************************************************************************)
\* "REG"
sREG == <<"R", "E", "G">>

\* "reg_"
sReg_ == <<"r", "e", "g", "_">>

\* "_ids"
s_ids == <<"_", "i", "d", "s">>

\* "_id"
s_id == <<"_", "i", "d">>

\* "Registro"
sRegistro == <<"R", "e", "g", "i", "s", "t", "r", "o">>

\* "_Registro"
s_Registro == <<"_", "R", "e", "g", "i", "s", "t", "r", "o">>

\* "_INDEX_"
s_INDEX_ == <<"_", "I", "N", "D", "E", "X", "_">>

\* "TDec_"
sTDec_ == <<"T", "D", "e", "c", "_">>

\* "TDec_16"
sTDec_16 == <<"T", "D", "e", "c", "_", "1", "6">>

\* "TDec_160"
sTDec_160 == <<"T", "D", "e", "c", "_", "1", "6", "0">>

\* "VL_"
sVL_ == <<"V", "L", "_">>

\* "VAL_"
sVAL_ == <<"V", "A", "L", "_">>

\* "VALOR"
sVALOR == <<"V", "A", "L", "O", "R">>

\* "DT_"
sDT_ == <<"D", "T", "_">>

\* "DAT_"
sDAT_ == <<"D", "A", "T", "_">>

\* "DATA"
sDATA == <<"D", "A", "T", "A">>

\* "0000"
s0000 == <<"0", "0", "0", "0">>

\* "1:1"
sCard11 == <<"1", ":", "1">>

\* "1;1"
sCard1s1 == <<"1", ";", "1">>

\* "access_user_"
sAccessUser_ == <<"a", "c", "c", "e", "s", "s", "_", "u", "s", "e", "r", "_">>

\* "access_manager_"
sAccessManager_ == <<"a", "c", "c", "e", "s", "s", "_", "m", "a", "n", "a", "g", "e", "r", "_">>

\* "model_l10n_br_sped_"
sModel_ == <<"m", "o", "d", "e", "l", "_", "l", "1", "0", "n", "_", "b", "r", "_", "s", "p", "e", "d", "_">>

\* "_action"
s_action == <<"_", "a", "c", "t", "i", "o", "n">>

\* "ecd"
sEcd == <<"e", "c", "d">>

\* "ecf"
sEcf == <<"e", "c", "f">>

\* "efd_icms_ipi"
sEfdIcmsIpi == <<"e", "f", "d", "_", "i", "c", "m", "s", "_", "i", "p", "i">>

(***************************************************************************)
(* Registers: sorting and hierarchy.                                       *)
(*                                                                         *)
(* A register is a record [code, level, card] as returned by               *)
(* get_registers, to which collect_register_children adds keys.  A key a   *)
(* register dict may lack is modelled by has_children = FALSE (the two     *)
(* children lists) and by position 0 (parent, o2m_parent).  The children   *)
(* lists and the parent links hold references to the dicts of the list     *)
(* "registers"; a reference is the position of the dict in that list.      *)
(***************************************************************************)
NewRegister(code, level, card) ==
    [code |-> code, level |-> level, card |-> card,
     has_children |-> FALSE, children_o2m |-> <<>>, children_m2o |-> <<>>,
     parent |-> 0, o2m_parent |-> 0]

\* _get_alphanum_sequence with the block order of block 1 and the other blocks swapped
_get_alphanum_sequence_swapped(register_code) ==
    LET bloco_key == register_code[1]
    IN IF bloco_key = "0" THEN <<"0">> \o register_code
       ELSE IF bloco_key = "1" THEN <<"1">> \o register_code
       ELSE IF bloco_key = "9" THEN <<"3">> \o register_code
       ELSE <<"2">> \o register_code

_get_alphanum_sequence(register_code) ==
    LET bloco_key == register_code[1]
    IN IF bloco_key = "0" THEN <<"0">> \o register_code
       ELSE IF bloco_key = "1" THEN <<"2">> \o register_code
       ELSE IF bloco_key = "9" THEN <<"3">> \o register_code
       ELSE <<"1">> \o register_code

\* one step of sorted(): x goes after every element whose key is not greater
\* (sorted is stable)
RECURSIVE InsertByKey(_, _)
InsertByKey(sorted, x) ==
    IF sorted = <<>> THEN <<x>>
    ELSE IF StrLess(_get_alphanum_sequence(x.code), _get_alphanum_sequence(sorted[1].code))
         THEN <<x>> \o sorted
         ELSE <<sorted[1]>> \o InsertByKey(Tail(sorted), x)

\* sorted(list, key=lambda x: _get_alphanum_sequence(x["code"]))
RECURSIVE SortedByKey(_)
SortedByKey(list) ==
    IF list = <<>> THEN <<>>
    ELSE InsertByKey(SortedByKey(SubSeq(list, 1, Len(list) - 1)), list[Len(list)])

\* filter(lambda x: x["code"][0] != "C" or mod not in ("ecd", "ecf"), list)
RECURSIVE FilterValidatorBlock(_, _)
FilterValidatorBlock(m, list) ==
    IF list = <<>> THEN <<>>
    ELSE IF list[1].code[1] # "C" \/ m \notin {sEcd, sEcf}
         THEN <<list[1]>> \o FilterValidatorBlock(m, Tail(list))
         ELSE FilterValidatorBlock(m, Tail(list))

\* the test on the card without strip()
IsOneToOneUnstripped(card) == card = sCard11 \/ card = sCard1s1

\* r["card"].strip() == "1:1" or r["card"].strip() == "1;1"
IsOneToOne(card) == Strip(card) = sCard11 \/ Strip(card) = sCard1s1

\* the inner loop "for r in registers" of collect_register_children for the
\* register at position a, from position b on; st holds the locals
\* collect_children, children_o2m, children_m2o and the list being mutated
RECURSIVE CollectInner(_, _, _)
CollectInner(st, a, b) ==
    IF b > Len(st.regs) THEN st
    ELSE
      LET r == st.regs[b]
          level == st.regs[a].level
      IN IF r.code = st.regs[a].code
         THEN CollectInner([st EXCEPT !.collect_children = TRUE], a, b + 1)
         ELSE IF st.collect_children
         THEN IF r.level = level + 1
              THEN IF IsOneToOne(r.card)
                   THEN CollectInner(
                          [st EXCEPT !.children_m2o = Append(@, b),
                                     !.regs[b].parent = a], a, b + 1)
                   ELSE CollectInner(
                          [st EXCEPT !.children_o2m = Append(@, b),
                                     !.regs[b].o2m_parent = a,
                                     !.regs[b].parent = a], a, b + 1)
              ELSE IF r.level <= level
                   THEN st
                   ELSE CollectInner(st, a, b + 1)
         ELSE CollectInner(st, a, b + 1)

\* the outer loop "for register_info in registers", from position a on
RECURSIVE CollectFrom(_, _)
CollectFrom(regs, a) ==
    IF a > Len(regs) THEN regs
    ELSE IF regs[a].level > 1
         THEN LET st == CollectInner(
                          [regs |-> regs, collect_children |-> FALSE,
                           children_o2m |-> <<>>, children_m2o |-> <<>>], a, 1)
              IN CollectFrom(
                   [st.regs EXCEPT ![a].has_children = TRUE,
                                   ![a].children_o2m = st.children_o2m,
                                   ![a].children_m2o = st.children_m2o], a + 1)
         ELSE CollectFrom(regs, a + 1)

collect_register_children(regs) == CollectFrom(regs, 1)

(***************************************************************************)
(* Fields.  A field is a record [register, code, index, type, decimal,     *)
(* xsd_type] as returned by get_fields; type, decimal and xsd_type are ""  *)
(* (the empty string) when the column is empty.                            *)
(***************************************************************************)

\* the list positions of filter(lambda x: x["register"] == code, mod_fields)
RECURSIVE FieldsOf(_, _, _)
FieldsOf(flds, code, k) ==
    IF k > Len(flds) THEN <<>>
    ELSE IF flds[k].register = code
         THEN <<k>> \o FieldsOf(flds, code, k + 1)
         ELSE FieldsOf(flds, code, k + 1)

\* f'{field["code"]}_INDEX_{field["index"]}'
IndexedCode(field) == field.code \o s_INDEX_ \o Str(field.index)

\* the deduplication loop of main over the positions ks of the fields of one
\* register; unique_codes is the set built so far, flds the list mutated in place
RECURSIVE DedupLoop(_, _, _)
DedupLoop(flds, ks, unique_codes) ==
    IF ks = <<>> THEN flds
    ELSE LET k == ks[1]
         IN IF flds[k].code \notin unique_codes
            THEN DedupLoop(flds, Tail(ks), unique_codes \cup {flds[k].code})
            ELSE LET renamed == IndexedCode(flds[k])
                 IN DedupLoop([flds EXCEPT ![k].code = renamed], Tail(ks),
                              unique_codes \cup {renamed})

DedupFields(flds, code) == DedupLoop(flds, FieldsOf(flds, code, 1), {})

\* if not field.get("type"): field["type"] = "char"
DefaultType(field) == IF field.type = "" THEN [field EXCEPT !.type = "char"] ELSE field

IsDateCode(code) ==
    StartsWith(code, sDT_) \/ StartsWith(code, sDAT_) \/ StartsWith(code, sDATA)

\* the chain with the test on the decimal count applied to "int" as well:
\* (A or B) and C and D in place of A or (B and C and D)
InferTypeOrFirst(field) ==
    IF IsDateCode(field.code) THEN "date"
    ELSE IF (field.type = "int" \/ field.type = "float")
            /\ field.decimal # <<>> /\ ParseInt(field.decimal) = 0
         THEN "integer"
         ELSE IF field.type = "float" THEN "float"
              ELSE "string"

\* the if/elif chain of main that picks the XML Schema type of a field; the
\* result is the datatype code of the AttrType
InferType(field) ==
    IF IsDateCode(field.code) THEN "date"
    ELSE IF field.type = "int"
            \/ (field.type = "float" /\ field.decimal # <<>>
                /\ ParseInt(field.decimal) = 0)
         THEN "integer"
         ELSE IF field.type = "float" THEN "float"
              ELSE "string"

\* the loop "for field in fields" of main over the positions ks: the default
\* type is written into the field, and an Attr is built unless the code is REG.
\* src is the position of the field record the Attr was built from.
RECURSIVE FieldAttrs(_, _)
FieldAttrs(flds, ks) ==
    IF ks = <<>> THEN <<>>
    ELSE IF flds[ks[1]].code = sREG
         THEN FieldAttrs(flds, Tail(ks))
         ELSE <<[name |-> flds[ks[1]].code,
                 native |-> TRUE,
                 datatype |-> InferType(DefaultType(flds[ks[1]])),
                 kind |-> "field",
                 src |-> ks[1]]>> \o FieldAttrs(flds, Tail(ks))

RECURSIVE DefaultTypes(_, _)
DefaultTypes(flds, ks) ==
    IF ks = <<>> THEN flds
    ELSE IF flds[ks[1]].code = sREG
         THEN DefaultTypes(flds, Tail(ks))
         ELSE DefaultTypes([flds EXCEPT ![ks[1]] = DefaultType(@)], Tail(ks))

\* "reg_{}_ids_{}_id".format(register["code"], parent_qname)
ParentAttrName(code, parent_code) ==
    sReg_ \o code \o s_ids \o <<"_">> \o sRegistro \o parent_code \o s_id

\* "reg_{}_ids".format(child["code"])
ChildAttrName(child_code) == sReg_ \o child_code \o s_ids

\* the Attr of the link to the parent, if register.get("parent")
ParentAttrs(regs, p) ==
    IF regs[p].parent # 0
    THEN <<[name |-> ParentAttrName(regs[p].code, regs[regs[p].parent].code),
            native |-> FALSE, datatype |-> "", kind |-> "parent",
            src |-> regs[p].parent]>>
    ELSE <<>>

\* the Attrs of register.get("children_m2o", []) + register.get("children_o2m", [])
ChildAttrs(regs, p) ==
    LET children == regs[p].children_m2o \o regs[p].children_o2m
    IN [j \in 1..Len(children) |->
          [name |-> ChildAttrName(regs[children[j]].code),
           native |-> FALSE, datatype |-> "", kind |-> "child",
           src |-> children[j]]]

(***************************************************************************)
(* SpedFilters.                                                            *)
(***************************************************************************)

\* the position of the first element that list(filter(pred, list)) keeps,
\* given for every position whether pred holds there; 0 when the filtered
\* list is empty (where [0] raises IndexError)
FirstMatch(holds) ==
    IF \E k \in 1..Len(holds) : holds[k]
    THEN CHOOSE k \in 1..Len(holds) : holds[k] /\ \A j \in 1..(k - 1) : ~holds[j]
    ELSE 0

NoKwargs ==
    [branch |-> "", raised |-> FALSE, found |-> 0, sped_card |-> <<>>,
     xsd_type |-> <<>>, has_digits |-> FALSE, digits |-> <<0, 0>>,
     currency_field |-> ""]

\* the encoding with the zero padding applied up to 10 instead of 9
DecimalXsdTypePadTen(decimal) ==
    LET digits == ParseInt(decimal)
    IN IF digits <= 10 THEN sTDec_160 \o Str(digits) ELSE sTDec_16 \o Str(digits)

\* the xsd_type a float Attr gets from the decimal count of its field
DecimalXsdType(decimal) ==
    LET digits == ParseInt(decimal)
    IN IF digits < 10 THEN sTDec_160 \o Str(digits) ELSE sTDec_16 \o Str(digits)

\* SpedFilters._extract_field_attributes for the Attr attr of the class
\* obj_name; regs is self.registers and flds is self.fields
_extract_field_attributes(regs, flds, obj_name, attr) ==
    IF EndsWith(attr.name, s_id) /\ Contains(attr.name, s_Registro)
    THEN [NoKwargs EXCEPT !.branch = "cascade"]
    ELSE IF StartsWith(attr.name, sReg_) /\ EndsWith(attr.name, s_ids)
    THEN LET target_reg_code == Replace(Replace(attr.name, sReg_, <<>>), s_ids, <<>>)
             t == FirstMatch([k \in 1..Len(regs) |-> regs[k].code = target_reg_code])
         IN IF t = 0
            THEN [NoKwargs EXCEPT !.branch = "child", !.raised = TRUE]
            ELSE [NoKwargs EXCEPT !.branch = "child", !.found = t,
                                  !.sped_card = regs[t].card]
    ELSE LET f == FirstMatch([k \in 1..Len(flds) |->
                                flds[k].code = attr.name
                                /\ flds[k].register = LastN(obj_name, 4)])
         IN IF f = 0
            THEN [NoKwargs EXCEPT !.branch = "simple", !.raised = TRUE]
            ELSE [NoKwargs EXCEPT
                    !.branch = "simple",
                    !.found = f,
                    !.xsd_type =
                       IF attr.native /\ attr.datatype = "float"
                          /\ flds[f].decimal # <<>>
                       THEN DecimalXsdType(flds[f].decimal)
                       ELSE flds[f].xsd_type]

IsValueName(name) ==
    StartsWith(name, sVL_) \/ StartsWith(name, sVAL_) \/ StartsWith(name, sVALOR)

\* _extract_number_attrs with "and" for the "or" of the digits test
_extract_number_attrs_and(attr, kwargs) ==
    IF attr.datatype \in {"float", "decimal", "integer"}
    THEN IF StartsWith(kwargs.xsd_type, sTDec_)
         THEN IF ParseInt(Slice(kwargs.xsd_type, 7, 9)) # 2 /\ ~IsValueName(attr.name)
              THEN [kwargs EXCEPT
                      !.has_digits = TRUE,
                      !.digits = <<ParseInt(Slice(kwargs.xsd_type, 5, 7)),
                                   ParseInt(Slice(kwargs.xsd_type, 7, 9))>>]
              ELSE [kwargs EXCEPT !.currency_field = "brl_currency_id"]
         ELSE IF IsValueName(attr.name)
              THEN [kwargs EXCEPT !.currency_field = "brl_currency_id"]
              ELSE kwargs
    ELSE kwargs

\* SpedFilters._extract_number_attrs: kwargs with the keys it adds
_extract_number_attrs(attr, kwargs) ==
    IF attr.datatype \in {"float", "decimal", "integer"}
    THEN IF StartsWith(kwargs.xsd_type, sTDec_)
         THEN IF ParseInt(Slice(kwargs.xsd_type, 7, 9)) # 2 \/ ~IsValueName(attr.name)
              THEN [kwargs EXCEPT
                      !.has_digits = TRUE,
                      !.digits = <<ParseInt(Slice(kwargs.xsd_type, 5, 7)),
                                   ParseInt(Slice(kwargs.xsd_type, 7, 9))>>]
              ELSE [kwargs EXCEPT !.currency_field = "brl_currency_id"]
         ELSE IF IsValueName(attr.name)
              THEN [kwargs EXCEPT !.currency_field = "brl_currency_id"]
              ELSE kwargs
    ELSE kwargs

\* what the templates of render_classes compute for one Attr of one class
RenderAttr(regs, flds, obj_name, attr) ==
    LET kwargs == _extract_field_attributes(regs, flds, obj_name, attr)
    IN IF attr.native /\ ~kwargs.raised
       THEN _extract_number_attrs(attr, kwargs)
       ELSE kwargs

(***************************************************************************)
(* main: the body of "for mod in MODULES" for one module.                  *)
(***************************************************************************)

\* the two rows with the id of the first row repeated in the second
SecurityRowsSameId(m, code) ==
    <<[id |-> sAccessUser_ \o m \o <<"_">> \o Lower(code),
       name |-> m \o <<".">> \o Lower(code),
       model_id |-> sModel_ \o m \o <<"_">> \o Lower(code),
       group_id |-> "l10n_br_fiscal.group_user",
       perms |-> <<1, 0, 0, 0>>],
      [id |-> sAccessUser_ \o m \o <<"_">> \o Lower(code),
       name |-> m \o <<".">> \o Lower(code),
       model_id |-> sModel_ \o m \o <<"_">> \o Lower(code),
       group_id |-> "l10n_br_fiscal.group_manager",
       perms |-> <<1, 1, 1, 1>>]>>

\* the rows main appends to security_csv for one register
SecurityRows(m, code) ==
    <<[id |-> sAccessUser_ \o m \o <<"_">> \o Lower(code),
       name |-> m \o <<".">> \o Lower(code),
       model_id |-> sModel_ \o m \o <<"_">> \o Lower(code),
       group_id |-> "l10n_br_fiscal.group_user",
       perms |-> <<1, 0, 0, 0>>],
      [id |-> sAccessManager_ \o m \o <<"_">> \o Lower(code),
       name |-> m \o <<".">> \o Lower(code),
       model_id |-> sModel_ \o m \o <<"_">> \o Lower(code),
       group_id |-> "l10n_br_fiscal.group_manager",
       perms |-> <<1, 1, 1, 1>>]>>

\* id of the menuitem of a block: "%s_%s" % (mod, bloco_char.lower())
BlocoMenuId(m, bloco_char) == m \o <<"_">> \o Lower(<<bloco_char>>)

\* a "BLOCO x" menuitem for every register, whatever last_bloco is
BlocoMenuAlways(m, bloco_char, last) ==
    <<[kind |-> "bloco", name |-> bloco_char, action |-> <<>>,
       parent |-> m, id |-> m \o <<"_">> \o Lower(<<bloco_char>>)]>>

\* the "BLOCO x" menuitem main appends when the block changes
BlocoMenu(m, bloco_char, last) ==
    IF bloco_char # last
    THEN <<[kind |-> "bloco", name |-> bloco_char, action |-> <<>>,
            parent |-> m, id |-> BlocoMenuId(m, bloco_char)]>>
    ELSE <<>>

\* the action record and the menuitem main appends for a register of level 2
RegisterMenu(m, register) ==
    IF register.level = 2
    THEN <<[kind |-> "action", name |-> register.code, action |-> <<>>,
            parent |-> <<>>,
            id |-> m \o <<"_">> \o Lower(register.code) \o s_action],
           [kind |-> "register", name |-> register.code,
            action |-> m \o <<"_">> \o Lower(register.code) \o s_action,
            parent |-> BlocoMenuId(m, register.code[1]),
            id |-> m \o <<"_">> \o Lower(register.code)]>>
    ELSE <<>>

\* the test without the exception for register 0000
SkipsEveryBlockRegister(register) == register.level \in {0, 1}

\* if register["level"] in (0, 1) and register["code"] != "0000": continue
SkipsRegister(register) == register.level \in {0, 1} /\ register.code # s0000

\* if register["code"][0] == "9": break
BreaksAt(register) == register.code[1] = "9"

\* registers = list(sorted(filter(...), key=...))
SortRegisters ==
    /\ pc = "start"
    /\ registers' = SortedByKey(FilterValidatorBlock(mod, regs_in))
    /\ pc' = "collect"
    /\ UNCHANGED <<mod, regs_in, fields_in, concrete_models_source, mod_fields, pos,
                   last_bloco, classes,
                   security_csv, views_xml, rendered>>

\* collect_register_children(registers); the filters get the two lists
CollectChildren ==
    /\ pc = "collect"
    /\ registers' = collect_register_children(registers)
    /\ pc' = "loop"
    /\ pos' = 1
    /\ UNCHANGED <<mod, regs_in, fields_in, concrete_models_source, mod_fields,
                   last_bloco, classes,
                   security_csv, views_xml, rendered>>

\* one iteration of "for register in registers" that ends in continue
SkipRegister ==
    /\ pc = "loop"
    /\ pos <= Len(registers)
    /\ SkipsRegister(registers[pos])
    /\ pos' = pos + 1
    /\ UNCHANGED <<pc, mod, regs_in, registers, fields_in, concrete_models_source,
                   mod_fields, last_bloco, classes,
                   security_csv, views_xml, rendered>>

\* the iteration that ends the loop with break
BreakAtBlock9 ==
    /\ pc = "loop"
    /\ pos <= Len(registers)
    /\ ~SkipsRegister(registers[pos])
    /\ BreaksAt(registers[pos])
    /\ pc' = "render"
    /\ UNCHANGED <<mod, regs_in, registers, fields_in, concrete_models_source,
                   mod_fields, pos, last_bloco, classes,
                   security_csv, views_xml, rendered>>

\* one full iteration: menu entries, deduplication of the field codes, the
\* Attrs, the Class and the two security rows of the register
ProcessRegister ==
    /\ pc = "loop"
    /\ pos <= Len(registers)
    /\ ~SkipsRegister(registers[pos])
    /\ ~BreaksAt(registers[pos])
    /\ LET register == registers[pos]
           bloco_char == register.code[1]
           deduped == DedupFields(mod_fields, register.code)
           ks == FieldsOf(deduped, register.code, 1)
           attrs == FieldAttrs(deduped, ks)
                      \o ParentAttrs(registers, pos)
                      \o ChildAttrs(registers, pos)
       IN /\ concrete_models_source' =
                IF register.level > 1 \/ register.code = s0000
                THEN Append(concrete_models_source, sRegistro \o register.code)
                ELSE concrete_models_source
          /\ views_xml' = views_xml \o BlocoMenu(mod, bloco_char, last_bloco)
                                    \o RegisterMenu(mod, register)
          /\ last_bloco' = bloco_char
          /\ mod_fields' = DefaultTypes(deduped, ks)
          /\ classes' = Append(classes,
                               [name |-> sRegistro \o register.code,
                                attrs |-> attrs, reg |-> pos])
          /\ security_csv' = security_csv \o SecurityRows(mod, register.code)
    /\ pos' = pos + 1
    /\ UNCHANGED <<pc, mod, regs_in, registers, fields_in, rendered>>

\* the list is exhausted
EndLoop ==
    /\ pc = "loop"
    /\ pos > Len(registers)
    /\ pc' = "render"
    /\ UNCHANGED <<mod, regs_in, registers, fields_in, concrete_models_source,
                   mod_fields, pos, last_bloco, classes,
                   security_csv, views_xml, rendered>>

\* generator.render_classes(classes, None): the filters run on every Attr
RenderClasses ==
    /\ pc = "render"
    /\ rendered' = [c \in 1..Len(classes) |->
                      [j \in 1..Len(classes[c].attrs) |->
                         RenderAttr(registers, mod_fields, classes[c].name,
                                    classes[c].attrs[j])]]
    /\ pc' = "done"
    /\ UNCHANGED <<mod, regs_in, registers, fields_in, concrete_models_source,
                   mod_fields, pos, last_bloco, classes,
                   security_csv, views_xml>>

Next ==
    \/ SortRegisters
    \/ CollectChildren
    \/ SkipRegister
    \/ BreakAtBlock9
    \/ ProcessRegister
    \/ EndLoop
    \/ RenderClasses

(***************************************************************************)
(* Inputs.                                                                 *)
(***************************************************************************)
Modules == {sEcd, sEcf, sEfdIcmsIpi}

\* register codes of the layouts, in plain code order, each with the
\* cardinality and the level the layout gives it
RegPool ==
    <<[code |-> <<"0", "0", "0", "0">>, card |-> <<"1", ":", "1">>, level |-> 0],
      [code |-> <<"1", "0", "1", "0">>, card |-> <<"1", ":", "1", " ">>, level |-> 2],
      [code |-> <<"9", "0", "0", "1">>, card |-> <<"1", ":", "1">>, level |-> 1],
      [code |-> <<"9", "9", "0", "0">>, card |-> <<"1", ":", "N">>, level |-> 2],
      [code |-> <<"C", "0", "0", "1">>, card |-> <<"1", ":", "1">>, level |-> 1],
      [code |-> <<"C", "1", "0", "0">>, card |-> <<"1", ":", "N">>, level |-> 2],
      [code |-> <<"C", "1", "7", "0">>, card |-> <<" ", "1", ";", "1">>, level |-> 3]>>

Cards == {<<"1", ":", "1">>, <<" ", "1", ";", "1", " ">>, <<"1", ":", "N">>}

\* block registers (0, 1) and the levels below them
Levels == 0..(MaxLevel - 1)

\* the same and one level more: two levels below a register of level 2
HierarchyLevels == 0..MaxLevel

\* the elements of a set of positions, ascending
RECURSIVE Ascending(_)
Ascending(S) ==
    IF S = {} THEN <<>>
    ELSE LET m == CHOOSE x \in S : \A y \in S : x <= y
         IN <<m>> \o Ascending(S \ {m})

\* field codes seen in the layouts
cDT_DOC == <<"D", "T", "_", "D", "O", "C">>
cVL_DOC == <<"V", "L", "_", "D", "O", "C">>
cALIQ == <<"A", "L", "I", "Q">>

NewField(register, code, index, type, decimal, xsd_type) ==
    [register |-> register, code |-> code, index |-> index, type |-> type,
     decimal |-> decimal, xsd_type |-> xsd_type]

\* a small field table: C100 with a duplicated code, 0000 with a date
LayoutFields ==
    <<NewField(RegPool[1].code, sREG, 1, "char", <<>>, <<>>),
      NewField(RegPool[1].code, cDT_DOC, 2, "int", <<>>, <<>>),
      NewField(RegPool[6].code, sREG, 1, "char", <<>>, <<>>),
      NewField(RegPool[6].code, cVL_DOC, 2, "float", <<"2">>, <<>>),
      NewField(RegPool[6].code, cALIQ, 3, "float", <<"4">>, <<>>),
      NewField(RegPool[6].code, cALIQ, 4, "float", <<"2">>, <<>>)>>

InitRest ==
    /\ pc = "start"
    /\ registers = <<>>
    /\ pos = 0
    /\ last_bloco = ""
    /\ fields_in = mod_fields
    /\ concrete_models_source = <<>>
    /\ classes = <<>>
    /\ security_csv = <<>>
    /\ views_xml = <<>>
    /\ rendered = <<>>

\* any module; up to MaxRegs registers out of six of the pool, in the order of
\* the table, each with any level; the field table of the layout
Init ==
    /\ mod \in Modules
    /\ \E S \in SUBSET {1, 2, 3, 4, 6, 7} :
         /\ Cardinality(S) \in 1..MaxRegs
         /\ \E lv \in [S -> Levels] :
              regs_in = [k \in 1..Cardinality(S) |->
                           NewRegister(RegPool[Ascending(S)[k]].code,
                                       lv[Ascending(S)[k]],
                                       RegPool[Ascending(S)[k]].card)]
    /\ mod_fields = LayoutFields
    /\ InitRest

Spec == Init /\ [][Next]_vars

\* the registers of the pool at the positions ks, with the levels of the layout
LayoutRegisters(ks) ==
    [k \in 1..Len(ks) |->
       NewRegister(RegPool[ks[k]].code, RegPool[ks[k]].level, RegPool[ks[k]].card)]

\* further codes, so that every group of the layout order has several blocks
\* or several registers
SortPool ==
    RegPool \o
    <<[code |-> <<"1", "9", "9", "0">>, card |-> <<"1", ":", "1">>, level |-> 1],
      [code |-> <<"K", "2", "0", "0">>, card |-> <<"1", ":", "N">>, level |-> 2],
      [code |-> <<"0", "2", "0", "0">>, card |-> <<"1", ":", "N">>, level |-> 2]>>

\* any module; up to MaxRegs distinct registers in any order, with the levels
\* of the layout
InitSort ==
    /\ mod \in Modules
    /\ \E n \in 1..MaxRegs :
         \E f \in [1..n -> 1..Len(SortPool)] :
            /\ \A a, b \in 1..n : a # b => f[a] # f[b]
            /\ regs_in = [k \in 1..n |->
                            NewRegister(SortPool[f[k]].code, SortPool[f[k]].level,
                                        SortPool[f[k]].card)]
    /\ mod_fields = LayoutFields
    /\ InitRest

SpecSort == InitSort /\ [][Next]_vars

\* one module; up to MaxRegs registers out of four, each with any level
\* (level 0 for the second of the pool only) and any cardinality
InitHierarchy ==
    /\ mod = sEfdIcmsIpi
    /\ \E S \in SUBSET {2, 4, 6, 7} :
         /\ Cardinality(S) \in 1..MaxRegs
         /\ \E lv \in [S -> HierarchyLevels] :
              \E cd \in [S -> Cards] :
                 /\ \A k \in S : lv[k] = 0 => k = 2
                 /\ regs_in = [k \in 1..Cardinality(S) |->
                                 NewRegister(RegPool[Ascending(S)[k]].code,
                                             lv[Ascending(S)[k]],
                                             cd[Ascending(S)[k]])]
    /\ mod_fields = LayoutFields
    /\ InitRest

SpecHierarchy == InitHierarchy /\ [][Next]_vars

\* a field code that already has the shape of a renamed duplicate
cALIQ_INDEX_3 == cALIQ \o s_INDEX_ \o <<"3">>

DedupCodes == {sREG, cALIQ, cALIQ_INDEX_3, cVL_DOC}

\* the number of positions j <= k of regs with regs[j] = regs[k]
Rank(regs, k) == Cardinality({j \in 1..k : regs[j] = regs[k]})

\* the registers of the layout, with or without block 9; up to MaxFields fields of C100 and C170, each
\* with any of the codes; the index of a field is its line in its register
InitDedup ==
    /\ mod = sEfdIcmsIpi
    /\ regs_in \in {LayoutRegisters(<<1, 5, 6, 7>>), LayoutRegisters(<<1, 4, 5, 6, 7>>)}
    /\ \E n \in 1..MaxFields :
         \E rg \in [1..n -> {RegPool[6].code, RegPool[7].code}] :
            \E cd \in [1..n -> DedupCodes] :
               mod_fields = [k \in 1..n |->
                               NewField(rg[k], cd[k], Rank(rg, k), "float",
                                        <<"2">>, <<>>)]
    /\ InitRest

SpecDedup == InitDedup /\ [][Next]_vars

TypeCodes ==
    {<<"D", "T", "_", "A">>, <<"D", "A", "T", "_", "A">>, <<"D", "A", "T", "A">>,
     <<"V", "L", "_", "A">>, <<"V", "A", "L", "_", "A">>, <<"V", "A", "L", "O", "R">>,
     <<"V", "L">>, <<"D", "T", "A">>, cALIQ}

FieldTypes == {"", "char", "int", "float"}

Decimals ==
    {<<>>, <<"0", "0">>, <<"0", "2">>} \cup {Str(d) : d \in 0..MaxDecimal}

XsdTypes ==
    {<<>>, sTDec_ \o <<"1", "3", "0", "2">>, sTDec_ \o <<"1", "5", "0", "4">>,
     <<"T", "S", "t", "r">>}

\* block C down to C100, with or without block 9; C100 has its REG field and one field with any
\* code, type, decimal count and xsd_type
InitTypes ==
    /\ mod = sEfdIcmsIpi
    /\ regs_in \in {LayoutRegisters(<<5, 6>>), LayoutRegisters(<<4, 5, 6>>)}
    /\ \E cd \in TypeCodes, ty \in FieldTypes, dc \in Decimals, xs \in XsdTypes :
         mod_fields = <<NewField(RegPool[6].code, sREG, 1, "char", <<>>, <<>>),
                        NewField(RegPool[6].code, cd, 2, ty, dc, xs)>>
    /\ InitRest

SpecTypes == InitTypes /\ [][Next]_vars

(***************************************************************************)
(* Properties.                                                             *)
(***************************************************************************)
Sorted == pc # "start"

\* the group of a register in the SPED layout order
LayoutGroup(code) ==
    CASE code[1] = "0" -> 0
      [] code[1] = "1" -> 2
      [] code[1] = "9" -> 3
      [] OTHER -> 1

\* a comes before b in the layout order, or is b
LayoutLeq(a, b) ==
    \/ LayoutGroup(a) < LayoutGroup(b)
    \/ LayoutGroup(a) = LayoutGroup(b) /\ (a = b \/ StrLess(a, b))

\* C3: once main has sorted them, the registers are the registers that passed
\* the filter, in SPED layout order: block 0, then the blocks other than 0, 1
\* and 9, then block 1, then block 9, in ascending code order inside each
\* group; so the registers of one block are contiguous.
C3_LayoutOrder ==
    Sorted =>
      /\ {registers[k].code : k \in 1..Len(registers)}
           = {regs_in[k].code : k \in 1..Len(regs_in)}
               \ {c \in {regs_in[k].code : k \in 1..Len(regs_in)} :
                    c[1] = "C" /\ mod \in {sEcd, sEcf}}
      /\ \A i, j \in 1..Len(registers) :
           i < j => LayoutLeq(registers[i].code, registers[j].code)
      /\ \A i, j, k \in 1..Len(registers) :
           (i < j /\ j < k /\ registers[i].code[1] = registers[k].code[1])
             => registers[j].code[1] = registers[i].code[1]

\* C3 witness: a list that came with block 1, a letter block and block 0 in
\* that order has been sorted
C3_Witness ==
    /\ Sorted
    /\ Len(regs_in) = 3 /\ Len(registers) = 3
    /\ regs_in[1].code[1] = "1" /\ regs_in[2].code[1] = "K" /\ regs_in[3].code[1] = "0"
    /\ registers[1].code[1] = "0" /\ registers[2].code[1] = "K"
    /\ registers[3].code[1] = "1"

Collected == pc \notin {"start", "collect"}

\* the card is "1:1" or "1;1" between blanks
CardIsOneToOne(card) ==
    \E i \in 1..Len(card) :
       /\ i + 2 <= Len(card)
       /\ card[i] = "1" /\ card[i + 1] \in {":", ";"} /\ card[i + 2] = "1"
       /\ \A k \in 1..Len(card) : (k < i \/ k > i + 2) => card[k] = " "

\* the later registers one level below position a that no register of the
\* level of a or above separates from it
ChildPositions(a) ==
    {b \in (a + 1)..Len(registers) :
       /\ registers[b].level = registers[a].level + 1
       /\ \A c \in (a + 1)..(b - 1) : registers[c].level > registers[a].level}

Range(seq) == {seq[k] : k \in 1..Len(seq)}

Increasing(seq) == \A i, j \in 1..Len(seq) : i < j => seq[i] < seq[j]

\* C1: after collect_register_children every register of level L > 1 has the
\* two children lists; together they hold exactly the later registers of
\* level L+1 that no register of level <= L separates from it; a child is in
\* children_m2o iff its stripped card is "1:1" or "1;1"; both lists are in
\* list order; a register of level <= 1 has no children lists.
C1_Children ==
    Collected =>
      \A a \in 1..Len(registers) :
         IF registers[a].level > 1
         THEN /\ registers[a].has_children
              /\ Range(registers[a].children_m2o)
                   = {b \in ChildPositions(a) : CardIsOneToOne(registers[b].card)}
              /\ Range(registers[a].children_o2m)
                   = {b \in ChildPositions(a) : ~CardIsOneToOne(registers[b].card)}
              /\ Increasing(registers[a].children_m2o)
              /\ Increasing(registers[a].children_o2m)
         ELSE ~registers[a].has_children

\* C1 witness: a register of level 2, then a register of level 4 that is
\* skipped, then a child whose card has blanks around "1;1"
C1_Witness ==
    /\ Collected
    /\ Len(registers) = 3
    /\ registers[1].level = 2 /\ registers[2].level = 4 /\ registers[3].level = 3
    /\ registers[3].card # Strip(registers[3].card)
    /\ registers[1].children_m2o = <<3>>
    /\ registers[1].children_o2m = <<>>

LoopOver == pc \in {"render", "done"}

\* the condition for a register of get_registers to get a model class
Eligible(register) ==
    /\ ~(register.code[1] = "C" /\ mod \in {sEcd, sEcf})
    /\ register.code[1] # "9"
    /\ (register.code = s0000 \/ register.level \notin {0, 1})

\* the positions of the classes generated for a register code
ClassesOf(code) == {c \in 1..Len(classes) : classes[c].name = sRegistro \o code}

\* the register code in the name of a class
ClassCode(c) == SubSeq(classes[c].name, Len(sRegistro) + 1, Len(classes[c].name))

\* C2: main never generates a class for a register that is not eligible, nor
\* two for one register; when the register loop is over (by exhaustion or by
\* the break at block 9) every eligible register has exactly one class; the
\* classes are in sorted order.
C2_EligibleClasses ==
    /\ \A k \in 1..Len(regs_in) :
         /\ Cardinality(ClassesOf(regs_in[k].code)) <= 1
         /\ ~Eligible(regs_in[k]) => ClassesOf(regs_in[k].code) = {}
         /\ (LoopOver /\ Eligible(regs_in[k]))
              => Cardinality(ClassesOf(regs_in[k].code)) = 1
    /\ \A c \in 1..Len(classes) :
         \E k \in 1..Len(regs_in) : regs_in[k].code = ClassCode(c)
    /\ \A c, d \in 1..Len(classes) :
         c < d => LayoutLeq(ClassCode(c), ClassCode(d))

\* C2 witness: the loop ended by break at a block-9 register that is not the
\* last of the list, after a class was generated for an eligible register
C2_Witness ==
    /\ pc = "done"
    /\ pos < Len(registers)
    /\ registers[pos].code[1] = "9"
    /\ Len(classes) = 1
    /\ \E k \in 1..Len(regs_in) : Eligible(regs_in[k])

\* the rows of security_csv with a given id
RowsWithId(id) == {k \in 1..Len(security_csv) : security_csv[k].id = id}

UserRowId(code) == sAccessUser_ \o mod \o <<"_">> \o Lower(code)

ManagerRowId(code) == sAccessManager_ \o mod \o <<"_">> \o Lower(code)

\* C5: after the header line security_csv holds, for every register that has
\* a class, exactly one access_user row (group_user, 1,0,0,0) and exactly one
\* access_manager row (group_manager, 1,1,1,1), for a register without class
\* no row, and no other row; the row ids are pairwise distinct.
C5_SecurityRows ==
    /\ \A k \in 1..Len(regs_in) :
         LET code == regs_in[k].code
         IN IF ClassesOf(code) # {}
            THEN /\ \E u \in 1..Len(security_csv) :
                       /\ RowsWithId(UserRowId(code)) = {u}
                       /\ security_csv[u].group_id = "l10n_br_fiscal.group_user"
                       /\ security_csv[u].perms = <<1, 0, 0, 0>>
                 /\ \E m \in 1..Len(security_csv) :
                       /\ RowsWithId(ManagerRowId(code)) = {m}
                       /\ security_csv[m].group_id = "l10n_br_fiscal.group_manager"
                       /\ security_csv[m].perms = <<1, 1, 1, 1>>
            ELSE /\ RowsWithId(UserRowId(code)) = {}
                 /\ RowsWithId(ManagerRowId(code)) = {}
    /\ Len(security_csv) = 2 * Len(classes)
    /\ \A i, j \in 1..Len(security_csv) :
         i # j => security_csv[i].id # security_csv[j].id

\* C5 witness: two registers have their rows and a third register has none
C5_Witness ==
    /\ pc = "done"
    /\ Len(regs_in) = 3
    /\ Len(classes) = 2
    /\ Len(security_csv) = 4

\* the views_xml elements of one kind
ViewsOfKind(kind) == {v \in 1..Len(views_xml) : views_xml[v].kind = kind}

\* the registers main has processed: those that have a class
Processed == {r \in 1..Len(registers) : ClassesOf(registers[r].code) # {}}

\* C6: the "BLOCO x" menuitem of a block is in views_xml exactly once if the
\* block has a processed register and not at all otherwise; a processed
\* register has an action record and a menuitem iff its level is 2; the parent
\* of that menuitem is the menuitem of the register's own block, which comes
\* before it.
C6_Menus ==
    /\ \A r \in Processed :
         Cardinality({v \in ViewsOfKind("bloco") :
                        views_xml[v].name = registers[r].code[1]}) = 1
    /\ \A v \in ViewsOfKind("bloco") :
         /\ \E r \in Processed : registers[r].code[1] = views_xml[v].name
         /\ views_xml[v].id = mod \o <<"_">> \o Lower(<<views_xml[v].name>>)
         /\ \A w \in ViewsOfKind("bloco") : w # v => views_xml[w].id # views_xml[v].id
    /\ \A r \in Processed :
         LET acts == {v \in ViewsOfKind("action") : views_xml[v].name = registers[r].code}
             menus == {v \in ViewsOfKind("register") : views_xml[v].name = registers[r].code}
         IN IF registers[r].level = 2
            THEN /\ Cardinality(acts) = 1
                 /\ Cardinality(menus) = 1
                 /\ \A v \in menus :
                       \E b \in ViewsOfKind("bloco") :
                          /\ b < v
                          /\ views_xml[b].name = registers[r].code[1]
                          /\ views_xml[b].id = views_xml[v].parent
            ELSE acts = {} /\ menus = {}
    /\ \A v \in ViewsOfKind("action") \cup ViewsOfKind("register") :
         \E r \in Processed : registers[r].code = views_xml[v].name

\* C6 witness: two processed registers of one block, the second of level 2,
\* share one "BLOCO" menuitem
C6_Witness ==
    /\ pc = "done"
    /\ \E r, q \in Processed :
          /\ r < q
          /\ registers[r].code[1] = registers[q].code[1]
          /\ registers[r].level # 2
          /\ registers[q].level = 2
    /\ Cardinality(ViewsOfKind("bloco")) = 1
    /\ Cardinality(ViewsOfKind("register")) = 1

\* the Attrs main built from fields: pairs <<class, attr>> of positions
FieldAttrPositions ==
    {ca \in UNION {{<<c, j>> : j \in 1..Len(classes[c].attrs)} : c \in 1..Len(classes)} :
       classes[ca[1]].attrs[ca[2]].kind = "field"}

AttrAt(ca) == classes[ca[1]].attrs[ca[2]]

\* a non-empty decimal count equal to 0
IsZeroCount(decimal) == decimal # <<>> /\ \A k \in 1..Len(decimal) : decimal[k] = "0"

\* C7: every Attr built from a field has exactly one of the four types, by
\* precedence: date iff the code starts with DT_, DAT_ or DATA; else integer
\* iff the type is "int", or "float" with a non-empty decimal count equal to
\* 0; else float iff the type is "float"; else string; a missing type has
\* become "char" and gives string (or date).
C7_TypePrecedence ==
    \A ca \in FieldAttrPositions :
       LET attr == AttrAt(ca)
           given == fields_in[attr.src]
           dated == \/ StartsWith(attr.name, <<"D", "T", "_">>)
                    \/ StartsWith(attr.name, <<"D", "A", "T", "_">>)
                    \/ StartsWith(attr.name, <<"D", "A", "T", "A">>)
           whole == \/ given.type = "int"
                    \/ given.type = "float" /\ IsZeroCount(given.decimal)
       IN /\ attr.datatype \in {"date", "integer", "float", "string"}
          /\ (attr.datatype = "date") <=> dated
          /\ (attr.datatype = "integer") <=> (~dated /\ whole)
          /\ (attr.datatype = "float") <=> (~dated /\ ~whole /\ given.type = "float")
          /\ (attr.datatype = "string") <=> (~dated /\ ~whole /\ given.type # "float")
          /\ mod_fields[attr.src].type = (IF given.type = "" THEN "char" ELSE given.type)

\* C7 witness: a float field with decimal count "00" was typed integer, its
\* code starting with "DT" but not with "DT_"
C7_Witness ==
    \E ca \in FieldAttrPositions :
       /\ fields_in[AttrAt(ca).src].type = "float"
       /\ fields_in[AttrAt(ca).src].decimal = <<"0", "0">>
       /\ AttrAt(ca).name = <<"D", "T", "A">>
       /\ AttrAt(ca).datatype = "integer"

Rendered == pc = "done"

KwargsAt(ca) == rendered[ca[1]][ca[2]]

HasCurrency(kwargs) == kwargs.currency_field = "brl_currency_id"

\* C8: for an Attr of datatype float, decimal or integer, currency_field is
\* set (to "brl_currency_id") iff the name starts with VL_, VAL_ or VALOR and
\* the xsd_type does not start with "TDec_" or has decimal part 2; digits is
\* set iff the xsd_type starts with "TDec_" and currency_field is not set;
\* never both; for another datatype neither is set.
C8_CurrencyOrDigits ==
    Rendered =>
      \A ca \in FieldAttrPositions :
         LET attr == AttrAt(ca)
             kwargs == KwargsAt(ca)
             valued == \/ StartsWith(attr.name, <<"V", "L", "_">>)
                       \/ StartsWith(attr.name, <<"V", "A", "L", "_">>)
                       \/ StartsWith(attr.name, <<"V", "A", "L", "O", "R">>)
             tdec == StartsWith(kwargs.xsd_type, <<"T", "D", "e", "c", "_">>)
             two == /\ Len(kwargs.xsd_type) >= 9
                    /\ kwargs.xsd_type[8] = "0"
                    /\ kwargs.xsd_type[9] = "2"
         IN /\ kwargs.currency_field \in {"", "brl_currency_id"}
            /\ ~(HasCurrency(kwargs) /\ kwargs.has_digits)
            /\ IF attr.datatype \in {"float", "decimal", "integer"}
               THEN /\ HasCurrency(kwargs) <=> (valued /\ (~tdec \/ two))
                    /\ kwargs.has_digits <=> (tdec /\ ~HasCurrency(kwargs))
               ELSE ~HasCurrency(kwargs) /\ ~kwargs.has_digits

\* C8 witness: a VL_ Attr of type float whose xsd_type has decimal part 4 got
\* digits and no currency_field
C8_Witness ==
    /\ Rendered
    /\ \E ca \in FieldAttrPositions :
          /\ AttrAt(ca).datatype = "float"
          /\ AttrAt(ca).name = <<"V", "L", "_", "A">>
          /\ KwargsAt(ca).xsd_type = sTDec_16 \o <<"0", "4">>
          /\ KwargsAt(ca).has_digits
          /\ ~HasCurrency(KwargsAt(ca))

\* d zero-padded to two digits, 0 <= d <= 99
TwoDigits(d) == <<Digits[(d \div 10) + 1], Digits[(d % 10) + 1]>>

\* the decimal counts that spell d
SpellsCount(decimal, d) ==
    \/ decimal = Str(d)
    \/ decimal = <<"0">> \o Str(d)

\* C9: for a float-typed Attr whose field has decimal count d, 1 <= d <= 99,
\* the xsd_type is "TDec_16" followed by d zero-padded to two digits, and
\* digits, whenever emitted, is (16, d); it is emitted unless currency_field is.
C9_PrecisionRoundTrip ==
    Rendered =>
      \A ca \in FieldAttrPositions :
         \A d \in 1..99 :
            (AttrAt(ca).datatype = "float"
               /\ SpellsCount(fields_in[AttrAt(ca).src].decimal, d))
            => /\ KwargsAt(ca).xsd_type = sTDec_16 \o TwoDigits(d)
               /\ KwargsAt(ca).has_digits => KwargsAt(ca).digits = <<16, d>>
               /\ KwargsAt(ca).has_digits \/ HasCurrency(KwargsAt(ca))

\* C9 witness: decimal count 10, the first that is not padded, came back as
\* digits (16, 10) although the field table gave another xsd_type
C9_Witness ==
    /\ Rendered
    /\ \E ca \in FieldAttrPositions :
          /\ AttrAt(ca).datatype = "float"
          /\ fields_in[AttrAt(ca).src].decimal = <<"1", "0">>
          /\ fields_in[AttrAt(ca).src].xsd_type = sTDec_ \o <<"1", "3", "0", "2">>
          /\ KwargsAt(ca).has_digits
          /\ KwargsAt(ca).digits = <<16, 10>>

\* the positions in mod_fields of the fields of a register code
FieldPositions(code) == {k \in 1..Len(mod_fields) : mod_fields[k].register = code}

\* C4: once main has run the deduplication pass over the fields of a register
\* (the register has its class), no two fields of that register have the same
\* code.
C4_UniqueFieldCodes ==
    \A c \in 1..Len(classes) :
       \A i, j \in FieldPositions(ClassCode(c)) :
          i # j => mod_fields[i].code # mod_fields[j].code

\* every Attr main built: pairs <<class, attr>> of positions
AttrPositions ==
    UNION {{<<c, j>> : j \in 1..Len(classes[c].attrs)} : c \in 1..Len(classes)}

\* no lookup of the filters was taken on an empty list, and every Attr took
\* the branch of its kind
C10_BranchesAndLookups ==
    Rendered =>
      \A ca \in AttrPositions :
         /\ ~KwargsAt(ca).raised
         /\ AttrAt(ca).kind = "parent" => KwargsAt(ca).branch = "cascade"
         /\ AttrAt(ca).kind = "child" =>
              /\ KwargsAt(ca).branch = "child"
              /\ registers[KwargsAt(ca).found].code = registers[AttrAt(ca).src].code
              /\ KwargsAt(ca).sped_card = registers[AttrAt(ca).src].card
         /\ AttrAt(ca).kind = "field" =>
              /\ KwargsAt(ca).branch = "simple"
              /\ mod_fields[KwargsAt(ca).found].code = AttrAt(ca).name
              /\ mod_fields[KwargsAt(ca).found].register = ClassCode(ca[1])

\* C10: every Attr main built is resolved by _extract_field_attributes to the
\* record it was built from, on the branch of its kind, and no first-match
\* lookup is taken on an empty list; no Attr is built for a field named REG.
C10_ResolvedToOwnRecord ==
    /\ C10_BranchesAndLookups
    /\ \A ca \in FieldAttrPositions : AttrAt(ca).name # sREG
    /\ Rendered =>
         \A ca \in AttrPositions :
            AttrAt(ca).kind \in {"child", "field"}
              => KwargsAt(ca).found = AttrAt(ca).src

====
